---------------------------- MODULE Spec2Model ----------------------------
(***************************************************************************)
(* sparselearn: projections onto convex sets (projections.py) and sparsity *)
(* regularisers (regularisers.py), as a state machine over one object: it  *)
(* is constructed, a method is called on it, the method runs (the simplex  *)
(* projection and the group iterator step by step) and returns or raises.  *)
(*                                                                         *)
(* Numbers.  The code computes in double precision; the model computes in  *)
(* exact rational arithmetic (<<numerator, denominator>>, normalised).     *)
(* Every quantity the model compares has a denominator far below 10^10,    *)
(* so two distinct modelled values differ by more than the code's 1e-10    *)
(* tolerance and `a < b + 1e-10' decides exactly as `a <= b' (LtTol).      *)
(* The 1e-16 guard in L2Projection.project is below the resolution of a    *)
(* double next to any norm >= 1 and only decides the case xnorm = 0.       *)
(* Rounding error itself is not modelled.                                  *)
(***************************************************************************)
EXTENDS Integers, Sequences, FiniteSets, TLC

VARIABLES
    pc,        \* "init" | "constructed" | "simplex_loop" | "iter_groups" | "returned"
    obj,       \* the constructed object (self)
    ctor,      \* the arguments the constructor was called with
    method,    \* the method being (or last) called on obj
    x,         \* the argument of the call
    prev,      \* result of the previous project call fed back as x (<<>>: none)
    y,         \* SimplexProjection.project: y
    v,         \* SimplexProjection.project: v (the working set)
    v_old,     \* SimplexProjection.project: v_old
    rho,       \* SimplexProjection.project: rho
    iters,     \* number of iterations of the while loop started so far
    yielded,   \* GroupMetaInfo tuples iter_groups has yielded so far
    ret        \* outcome of the call: Value(..) or Raise(..)

vars == <<pc, obj, ctor, method, x, prev, y, v, v_old, rho, iters, yielded, ret>>

---------------------------------------------------------------------------
(* Bounds of the model. *)
MaxLen == 3      \* longest input vector
MaxVal == 2      \* input entries are the integers -MaxVal..MaxVal
RegLen == 2      \* longest input vector of a regulariser call

---------------------------------------------------------------------------
(* Exact rational arithmetic. *)
Abs(n) == IF n < 0 THEN -n ELSE n

RECURSIVE GCD(_, _)
GCD(a, b) == IF b = 0 THEN a ELSE GCD(b, a % b)

R(n, d) ==
    LET g == GCD(Abs(n), Abs(d))
        s == IF d < 0 THEN -1 ELSE 1
    IN  <<(s * n) \div g, (s * d) \div g>>

Zero == R(0, 1)
One == R(1, 1)
RAdd(a, b) == R(a[1] * b[2] + b[1] * a[2], a[2] * b[2])
RSub(a, b) == R(a[1] * b[2] - b[1] * a[2], a[2] * b[2])
RMul(a, b) == R(a[1] * b[1], a[2] * b[2])
RDiv(a, b) == R(a[1] * b[2], a[2] * b[1])
RLt(a, b) == a[1] * b[2] < b[1] * a[2]
RLe(a, b) == a[1] * b[2] <= b[1] * a[2]
RAbs(a) == <<Abs(a[1]), a[2]>>
RMax(a, b) == IF RLt(a, b) THEN b ELSE a
RMin(a, b) == IF RLt(b, a) THEN b ELSE a
RSign(a) == IF a[1] > 0 THEN One ELSE IF a[1] < 0 THEN R(-1, 1) ELSE Zero

IsSquare(n) == \E k \in 0..n : k * k = n
ISqrt(n) == CHOOSE k \in 0..n : k * k = n
HasSqrt(a) == a[1] >= 0 /\ IsSquare(a[1]) /\ IsSquare(a[2])
RSqrt(a) == <<ISqrt(a[1]), ISqrt(a[2])>>

\* a < b + 1e-10 for modelled values a, b (see the note on numbers above)
LtTol(a, b) == RLe(a, b)

---------------------------------------------------------------------------
(* Vectors (numpy 1-d arrays) and the numpy operations the code uses. *)
RECURSIVE Sum(_)
Sum(s) == IF s = <<>> THEN Zero ELSE RAdd(Head(s), Sum(Tail(s)))

VAbs(s) == [i \in 1..Len(s) |-> RAbs(s[i])]
VSign(s) == [i \in 1..Len(s) |-> RSign(s[i])]
VMul(a, b) == [i \in 1..Len(a) |-> RMul(a[i], b[i])]
VAdd(a, b) == [i \in 1..Len(a) |-> RAdd(a[i], b[i])]
VSub(a, b) == [i \in 1..Len(a) |-> RSub(a[i], b[i])]
VScale(c, s) == [i \in 1..Len(s) |-> RMul(c, s[i])]
SumSq(s) == Sum([i \in 1..Len(s) |-> RMul(s[i], s[i])])
Mean(s) == RDiv(Sum(s), R(Len(s), 1))
AllNonNeg(s) == \A i \in 1..Len(s) : RLe(Zero, s[i])
Norm1(s) == Sum(VAbs(s))
Norm2(s) == RSqrt(SumSq(s))
RECURSIVE NormInf(_)
NormInf(s) == IF s = <<>> THEN Zero ELSE RMax(RAbs(Head(s)), NormInf(Tail(s)))
HasNorm2(s) == HasSqrt(SumSq(s))

---------------------------------------------------------------------------
(* Outcomes of a call. *)
Value(val) == [tag |-> "value", val |-> val]
Raise(exc) == [tag |-> "raise", val |-> exc]
NoRet == [tag |-> "none", val |-> <<>>]
IsValue(r) == r.tag = "value"
IsRaise(r) == r.tag = "raise"

---------------------------------------------------------------------------
(* projections.py *)

\* NonNegativityProjection.project: x*(x >= 0)
NonNegProject(xx) ==
    [i \in 1..Len(xx) |-> IF RLe(Zero, xx[i]) THEN xx[i] ELSE Zero]

NonNegIsFeasible(xx) == AllNonNeg(xx)

\* NonNegativityProjection() (the class defines no __init__)
NonNegNew == Value([cls |-> "NonNegativityProjection"])

\* SimplexInit rejecting a non-positive simplex_size
SimplexInitChecked(simplex_size) ==
    IF RLt(Zero, simplex_size)
    THEN Value([cls |-> "SimplexProjection", simplex_size |-> simplex_size,
                non_negativity_projection |-> NonNegNew.val])
    ELSE Raise("InvalidParameter")

\* SimplexProjection.__init__
SimplexInit(simplex_size) ==
    Value([cls |-> "SimplexProjection", simplex_size |-> simplex_size,
           non_negativity_projection |-> NonNegNew.val])

\* BallProjection.__init__, and L1Projection.__init__ on top of it
BallInit(cls, max_norm) ==
    IF cls = "L1Projection"
    THEN LET sp == SimplexInit(max_norm)
         IN  IF IsRaise(sp) THEN sp
             ELSE Value([cls |-> cls, max_norm |-> max_norm,
                         simplex_projection |-> sp.val])
    ELSE Value([cls |-> cls, max_norm |-> max_norm])

\* Rho with simplex_size not divided by len(v)
RhoUnscaled(vv, simplex_size) == RSub(Mean(vv), simplex_size)

\* Rho with the wrong sign on simplex_size/len(v)
RhoSignSlip(vv, simplex_size) ==
    RAdd(Mean(vv), RDiv(simplex_size, R(Len(vv), 1)))

\* rho = np.mean(v) - self.simplex_size/len(v), for len(v) > 0
Rho(vv, simplex_size) ==
    RSub(Mean(vv), RDiv(simplex_size, R(Len(vv), 1)))

\* v[v > rho]
Shrink(vv, r) == SelectSeq(vv, LAMBDA e : RLt(r, e))

\* Threshold without the clip at 0: y - rho
ThresholdNoClip(yy, r) == [i \in 1..Len(yy) |-> RSub(yy[i], r)]

\* np.maximum(y - rho, 0)
Threshold(yy, r) == [i \in 1..Len(yy) |-> RMax(RSub(yy[i], r), Zero)]

\* One pass of the body of `while True' from the locals (v, rho): the locals
\* after it, and whether (and what) it returns or raises.
SimplexIter(yy, vv, simplex_size) ==
    IF Len(vv) = 0
    THEN [v |-> vv, rho |-> Zero, out |-> Raise("ZeroDivisionError")]
    ELSE LET r == Rho(vv, simplex_size)
             nv == Shrink(vv, r)
         IN  [v |-> nv, rho |-> r,
              out |-> IF Len(nv) = Len(vv) THEN Value(Threshold(yy, r))
                      ELSE NoRet]

\* SimplexProjection.project as a function: the loop run to its end.
RECURSIVE SimplexRun(_, _, _)
SimplexRun(yy, vv, simplex_size) ==
    LET it == SimplexIter(yy, vv, simplex_size)
    IN  IF it.out.tag = "none" THEN SimplexRun(yy, it.v, simplex_size)
        ELSE it.out

SimplexProject(xx, simplex_size) ==
    LET yy == NonNegProject(xx) IN SimplexRun(yy, yy, simplex_size)

SimplexIsFeasible(self, xx) ==
    /\ LtTol(RAbs(RSub(Sum(xx), self.simplex_size)), Zero)
    /\ AllNonNeg(xx)

\* L1Projection.is_feasible, L2Projection.is_feasible, LInfProjection.is_feasible
L1IsFeasible(self, xx) == LtTol(Norm1(xx), self.max_norm)
L2IsFeasible(self, xx) == LtTol(Norm2(xx), self.max_norm)
LInfIsFeasible(self, xx) == LtTol(NormInf(xx), self.max_norm)

\* L2Projection.project.  max_norm/(xnorm + 1e-16) is max_norm/xnorm unless
\* xnorm = 0, where the finite factor max_norm/1e-16 multiplies the zero vector.
L2Project(self, xx) ==
    LET xnorm == Norm2(xx)
    IN  IF RLt(xnorm, self.max_norm) THEN xx
        ELSE IF xnorm = Zero THEN VScale(Zero, xx)
        ELSE VScale(RDiv(self.max_norm, xnorm), xx)

\* LInfProjection.project
LInfProject(self, xx) ==
    [i \in 1..Len(xx) |-> RMul(RSign(xx[i]), RMin(RAbs(xx[i]), self.max_norm))]

\* L1Signed without np.sign(x)
L1Unsigned(xx, simplexed) == simplexed

\* The result L1Projection.project builds from the simplex projection of |x|
L1Signed(xx, simplexed) == VMul(VSign(xx), simplexed)

IsFeasible(self, xx) ==
    CASE self.cls = "NonNegativityProjection" -> NonNegIsFeasible(xx)
      [] self.cls = "SimplexProjection" -> SimplexIsFeasible(self, xx)
      [] self.cls = "L1Projection" -> L1IsFeasible(self, xx)
      [] self.cls = "L2Projection" -> L2IsFeasible(self, xx)
      [] self.cls = "LInfProjection" -> LInfIsFeasible(self, xx)

---------------------------------------------------------------------------
(* Inputs. *)
Ints == (0 - MaxVal)..MaxVal
VectorsOfLen(n) == [1..n -> {R(k, 1) : k \in Ints}]
Vectors == UNION { VectorsOfLen(n) : n \in 1..MaxLen }

\* Constructor arguments: the tests' 0.5 and 1, a larger 2, and the
\* non-positive 0 and -1.
Params == {R(-1, 1), R(0, 1), R(1, 2), R(1, 1), R(2, 1)}
BallClasses == {"L1Projection", "L2Projection", "LInfProjection"}

\* x of a project call on an object of class cls: any vector, or the
\* previous result fed back
ProjectInputs(cls) ==
    IF pc = "constructed" /\ obj.cls = cls
    THEN IF prev = <<>> THEN Vectors ELSE {prev}
    ELSE {}

NoObj == [cls |-> "none"]
NoCtor == [cls |-> "none"]

Init ==
    /\ pc = "init"
    /\ obj = NoObj
    /\ ctor = NoCtor
    /\ method = "none"
    /\ x = <<>>
    /\ prev = <<>>
    /\ y = <<>>
    /\ v = <<>>
    /\ v_old = <<>>
    /\ rho = Zero
    /\ iters = 0
    /\ yielded = <<>>
    /\ ret = NoRet

Locals == <<y, v, v_old, rho, iters>>

---------------------------------------------------------------------------
(* A call ends: it returns a value or raises. *)
Return(val) ==
    /\ ret' = val
    /\ pc' = "returned"

(* Construction: the object, or the exception the constructor raised. *)
Constructed(out) ==
    IF IsValue(out)
    THEN /\ obj' = out.val
         /\ pc' = "constructed"
         /\ UNCHANGED ret
    ELSE /\ obj' = NoObj
         /\ Return(out)

ConstructNonNeg ==
    /\ pc = "init"
    /\ Constructed(NonNegNew)
    /\ ctor' = [cls |-> "NonNegativityProjection"]
    /\ UNCHANGED <<method, x, prev, Locals, yielded>>

ConstructSimplex ==
    \E s \in Params :
        /\ pc = "init"
        /\ Constructed(SimplexInit(s))
        /\ ctor' = [cls |-> "SimplexProjection", simplex_size |-> s]
        /\ UNCHANGED <<method, x, prev, Locals, yielded>>

ConstructBall ==
    \E cls \in BallClasses, a \in Params :
        /\ pc = "init"
        /\ Constructed(BallInit(cls, a))
        /\ ctor' = [cls |-> cls, max_norm |-> a]
        /\ UNCHANGED <<method, x, prev, Locals, yielded>>

---------------------------------------------------------------------------
(* project *)
ProjectNonNeg ==
    \E xx \in ProjectInputs("NonNegativityProjection") :
        /\ method' = "project"
        /\ x' = xx
        /\ Return(Value(NonNegProject(xx)))
        /\ UNCHANGED <<obj, ctor, prev, Locals, yielded>>

\* Lines 42-44 of SimplexProjection.project on input `inner', entering the loop
EnterSimplex(inner, simplex_size) ==
    /\ y' = NonNegProject(inner)
    /\ v' = y'
    /\ v_old' = <<>>
    /\ rho' = Rho(v', simplex_size)
    /\ iters' = 0
    /\ pc' = "simplex_loop"

ProjectSimplex ==
    \E xx \in ProjectInputs("SimplexProjection") :
        /\ method' = "project"
        /\ x' = xx
        /\ EnterSimplex(xx, obj.simplex_size)
        /\ UNCHANGED <<obj, ctor, prev, yielded, ret>>

ProjectL1 ==
    \E xx \in ProjectInputs("L1Projection") :
        /\ method' = "project"
        /\ x' = xx
        /\ IF L1IsFeasible(obj, xx)
           THEN /\ Return(Value(xx))
                /\ UNCHANGED Locals
           ELSE /\ EnterSimplex(VAbs(xx), obj.simplex_projection.simplex_size)
                /\ UNCHANGED ret
        /\ UNCHANGED <<obj, ctor, prev, yielded>>

\* The simplex object whose loop is running: self, or self.simplex_projection
LoopSelf ==
    IF obj.cls = "L1Projection" THEN obj.simplex_projection ELSE obj

\* One iteration of `while True' (lines 46-52); a return goes back through
\* L1Projection.project (line 74) when that is the caller.
SimplexLoop ==
    /\ pc = "simplex_loop"
    /\ LET it == SimplexIter(y, v, LoopSelf.simplex_size)
       IN  /\ iters' = iters + 1
           /\ v_old' = v
           /\ v' = it.v
           /\ rho' = it.rho
           /\ IF it.out.tag = "none"
              THEN UNCHANGED <<pc, ret>>
              ELSE Return(IF IsValue(it.out) /\ obj.cls = "L1Projection"
                          THEN Value(L1Signed(x, it.out.val))
                          ELSE it.out)
    /\ UNCHANGED <<obj, ctor, method, x, prev, y, yielded>>

ProjectL2 ==
    \E xx \in ProjectInputs("L2Projection") :
        /\ HasNorm2(xx)
        /\ method' = "project"
        /\ x' = xx
        /\ Return(Value(L2Project(obj, xx)))
        /\ UNCHANGED <<obj, ctor, prev, Locals, yielded>>

ProjectLInf ==
    \E xx \in ProjectInputs("LInfProjection") :
        /\ method' = "project"
        /\ x' = xx
        /\ Return(Value(LInfProject(obj, xx)))
        /\ UNCHANGED <<obj, ctor, prev, Locals, yielded>>

\* The caller projects the point it got back: project(project(x))
ProjectAgain ==
    /\ pc = "returned"
    /\ method = "project"
    /\ IsValue(ret)
    /\ prev = <<>>
    /\ prev' = ret.val
    /\ pc' = "constructed"
    /\ UNCHANGED <<obj, ctor, method, x, Locals, yielded, ret>>

---------------------------------------------------------------------------
(* regularisers.py *)

\* Python values: None, a float, a list, a numpy array (0-d or 1-d), a numpy bool
NoneVal == [py |-> "None"]
Float(r) == [py |-> "float", val |-> r]
List(s) == [py |-> "list", data |-> s]
NdArray(ndim, data) == [py |-> "ndarray", ndim |-> ndim, data |-> data]
Bool(b) == [py |-> "bool_", val |-> b]
PyInt(k) == [py |-> "int", val |-> k]
IsNone(p) == p.py = "None"
\* isinstance(p, numbers.Number)
IsNumber(p) == p.py = "float"

\* Names bound at module level in regularisers.py (lines 1-5 and the classes)
ModuleNames ==
    {"ABC", "abstractmethod", "numbers", "NamedTuple", "np",
     "BaseSparseRegulariser", "L1Regularisation", "GroupMetaInfo",
     "GroupLassoRegularisation"}

\* Attributes of an instance: what __init__ sets and what its classes define
Attributes(self) ==
    IF self.cls = "L1Regularisation"
    THEN {"reg", "__init__", "__call__", "subgradient", "prox", "prox_loss"}
    ELSE {"reg", "groups", "__init__", "iter_groups", "__call__",
          "subgradient", "prox", "prox_loss"}

\* np.asarray(groups): None becomes a 0-d object array holding None
AsArray(p) ==
    IF IsNone(p) THEN NdArray(0, <<NoneVal>>) ELSE NdArray(1, p.data)

\* L1Regularisation.__init__
L1RegInit(reg) == Value([cls |-> "L1Regularisation", reg |-> reg])

\* GroupLassoRegularisation.__init__
GroupLassoInit(reg, groups) ==
    Value([cls |-> "GroupLassoRegularisation", groups |-> AsArray(groups),
           reg |-> reg])

\* reg broadcast against x: the coefficient of entry i
RegAt(reg, i) == IF IsNumber(reg) THEN reg.val ELSE reg.data[i]

\* L1Regularisation.__call__ (line 72): `weights' is not a name of the module
L1Penalty(self, xx) ==
    IF "weights" \notin ModuleNames THEN Raise("NameError")
    ELSE Value(Norm1(xx))

\* L1Regularisation.subgradient (line 82)
L1Subgradient(self, xx) == Value(VSign(xx))

\* L1Regularisation.prox (line 92): the left operand self.sign(x) is looked
\* up first
L1Prox(self, xx) ==
    IF "sign" \notin Attributes(self) THEN Raise("AttributeError")
    ELSE Value([i \in 1..Len(xx) |->
                  RMul(RSign(xx[i]),
                       RMax(RSub(RAbs(xx[i]), RegAt(self.reg, i)), Zero))])

GroupMetaInfo(x_g, reg, idxes) == [x_g |-> x_g, reg |-> reg, idxes |-> idxes]

\* The integers of S in increasing order
RECURSIVE SortedSeq(_)
SortedSeq(S) ==
    IF S = {} THEN <<>>
    ELSE LET m == CHOOSE a \in S : \A b \in S : a.val <= b.val
         IN  <<m>> \o SortedSeq(S \ {m})

\* np.unique(self.groups): the sorted distinct elements of the flattened array
Unique(arr) ==
    IF arr.ndim = 0 THEN arr.data
    ELSE SortedSeq({arr.data[i] : i \in 1..Len(arr.data)})

\* self.groups == group: a boolean mask, or a single numpy bool for a 0-d array
EqMask(arr, group) ==
    IF arr.ndim = 0 THEN Bool(TRUE)
    ELSE NdArray(1, [i \in 1..Len(arr.data) |-> arr.data[i] = group])

\* x[idxes]: the masked entries; x[True] is all of x (under a new axis)
Index(xx, idxes) ==
    IF idxes.py = "bool_" THEN xx
    ELSE LET pick == SelectSeq([i \in 1..Len(xx) |-> i],
                               LAMBDA i : idxes.data[i])
         IN  [k \in 1..Len(pick) |-> xx[pick[k]]]

\* self.reg[group] for an array reg: an entry, or all of it for reg[None]
GetItem(reg, group) ==
    IF IsNone(group) THEN reg ELSE Float(reg.data[group.val + 1])

\* The body of the second for loop (lines 149-155) for one group: what it
\* yields, or the exception it raises. `sqrt' is not a name of the module.
GroupEvent(self, xx, group) ==
    LET idxes == EqMask(self.groups, group)
        x_g == Index(xx, idxes)
    IN  IF IsNumber(self.reg)
        THEN IF "sqrt" \notin ModuleNames THEN Raise("NameError")
             ELSE Value(GroupMetaInfo(x_g, self.reg, idxes))
        ELSE Value(GroupMetaInfo(x_g, GetItem(self.reg, group), idxes))

\* The body of the first for loop (lines 140-146) for index i (0-based)
SingletonEvent(self, xx, i) ==
    Value(GroupMetaInfo(<<xx[i + 1]>>,
                        IF IsNumber(self.reg) THEN self.reg
                        ELSE Float(self.reg.data[i + 1]),
                        PyInt(i)))

\* GroupLassoRegularisation.iter_groups: the events of the generator in
\* order. The first loop does not return, so the second loop follows it.
IterGroupsEvents(self, xx) ==
    LET first == IF IsNone(self.groups)
                 THEN [i \in 1..Len(xx) |-> SingletonEvent(self, xx, i - 1)]
                 ELSE <<>>
        uniq == Unique(self.groups)
        second == [k \in 1..Len(uniq) |-> GroupEvent(self, xx, uniq[k])]
    IN  first \o second

\* GroupLassoRegularisation.__call__ (line 166) and .subgradient (line 178)
\* call self.iter_groups() without its argument x
GroupLassoPenalty(self, xx) == Raise("TypeError")
GroupLassoSubgradient(self, xx) == Raise("TypeError")

\* GroupLassoRegularisation.prox (line 194): np.empty_like(subgradient), and
\* `subgradient' is not a name of the module; then iter_groups() as above
GroupLassoProx(self, xx) ==
    IF "subgradient" \notin ModuleNames THEN Raise("NameError")
    ELSE Raise("TypeError")

Penalty(self, xx) ==
    IF self.cls = "L1Regularisation" THEN L1Penalty(self, xx)
    ELSE GroupLassoPenalty(self, xx)
Subgradient(self, xx) ==
    IF self.cls = "L1Regularisation" THEN L1Subgradient(self, xx)
    ELSE GroupLassoSubgradient(self, xx)
Prox(self, xx) ==
    IF self.cls = "L1Regularisation" THEN L1Prox(self, xx)
    ELSE GroupLassoProx(self, xx)

---------------------------------------------------------------------------
(* Inputs of the regularisers. *)
Labels == {PyInt(0), PyInt(1)}
RegVectors == UNION { VectorsOfLen(n) : n \in 1..RegLen }
Weights == {R(1, 2), R(1, 1)}
\* reg of L1Regularisation: a number, or one weight per entry
L1Regs ==
    {Float(r) : r \in Params}
    \cup {NdArray(1, w) : w \in UNION {[1..n -> Weights] : n \in 1..RegLen}}
\* reg of GroupLassoRegularisation: a number, or one weight per label
GroupRegs ==
    {Float(r) : r \in Params}
    \cup {NdArray(1, w) : w \in [1..Cardinality(Labels) -> Weights]}
\* groups: None, or a label per index
GroupArgs ==
    {NoneVal} \cup {List(g) : g \in UNION {[1..n -> Labels] : n \in 1..RegLen}}

\* x fits the object: as long as a weight vector or a list of labels
Fits(self, xx) ==
    /\ self.reg.py = "ndarray" /\ self.cls = "L1Regularisation"
          => Len(xx) = Len(self.reg.data)
    /\ self.cls = "GroupLassoRegularisation" /\ self.groups.ndim = 1
          => Len(xx) = Len(self.groups.data)

Regularisers == {"L1Regularisation", "GroupLassoRegularisation"}

ConstructL1Reg ==
    \E reg \in L1Regs :
        /\ pc = "init"
        /\ Constructed(L1RegInit(reg))
        /\ ctor' = [cls |-> "L1Regularisation", reg |-> reg]
        /\ UNCHANGED <<method, x, prev, Locals, yielded>>

ConstructGroupLasso ==
    \E reg \in GroupRegs, groups \in GroupArgs :
        /\ pc = "init"
        /\ Constructed(GroupLassoInit(reg, groups))
        /\ ctor' = [cls |-> "GroupLassoRegularisation", reg |-> reg,
                    groups |-> groups]
        /\ UNCHANGED <<method, x, prev, Locals, yielded>>

\* x of a call on the regulariser obj
CallInputs ==
    IF pc = "constructed" /\ obj.cls \in Regularisers
    THEN {xx \in RegVectors : Fits(obj, xx)} ELSE {}

CallPenalty ==
    \E xx \in CallInputs :
        /\ method' = "__call__"
        /\ x' = xx
        /\ Return(Penalty(obj, xx))
        /\ UNCHANGED <<obj, ctor, prev, Locals, yielded>>

CallSubgradient ==
    \E xx \in CallInputs :
        /\ method' = "subgradient"
        /\ x' = xx
        /\ Return(Subgradient(obj, xx))
        /\ UNCHANGED <<obj, ctor, prev, Locals, yielded>>

CallProx ==
    \E xx \in CallInputs :
        /\ method' = "prox"
        /\ x' = xx
        /\ Return(Prox(obj, xx))
        /\ UNCHANGED <<obj, ctor, prev, Locals, yielded>>

\* iter_groups(x) makes the generator; nothing of its body has run yet
IterGroupsStart ==
    \E xx \in CallInputs :
        /\ obj.cls = "GroupLassoRegularisation"
        /\ method' = "iter_groups"
        /\ x' = xx
        /\ yielded' = <<>>
        /\ pc' = "iter_groups"
        /\ UNCHANGED <<obj, ctor, prev, Locals, ret>>

\* next() on the generator: the next yield, the exception, or the end, at
\* which the consumer holds everything that was yielded
IterGroupsNext ==
    /\ pc = "iter_groups"
    /\ LET events == IterGroupsEvents(obj, x)
           k == Len(yielded) + 1
       IN  IF k > Len(events)
           THEN /\ Return(Value(yielded))
                /\ UNCHANGED yielded
           ELSE IF IsRaise(events[k])
           THEN /\ Return(events[k])
                /\ UNCHANGED yielded
           ELSE /\ yielded' = Append(yielded, events[k].val)
                /\ UNCHANGED <<pc, ret>>
    /\ UNCHANGED <<obj, ctor, method, x, prev, Locals>>

---------------------------------------------------------------------------
(* Properties of the projections. *)

\* The radius / size the object holds is positive (the spec's ProjectionSet)
PositiveParam(self) ==
    CASE self.cls = "NonNegativityProjection" -> TRUE
      [] self.cls = "SimplexProjection" -> RLt(Zero, self.simplex_size)
      [] self.cls \in BallClasses -> RLt(Zero, self.max_norm)
      [] OTHER -> FALSE

Projected == pc = "returned" /\ method = "project"

\* C1: for every projection variant with a positive size / radius and every
\* input x, project(x) is a point and is_feasible(project(x)) is true; for
\* SimplexProjection its entries are >= 0 and sum to simplex_size.
C1_FeasibleOutput ==
    (Projected /\ PositiveParam(obj)) =>
        /\ IsValue(ret)
        /\ Len(ret.val) = Len(x)
        /\ IsFeasible(obj, ret.val)
        /\ obj.cls = "SimplexProjection" =>
              /\ AllNonNeg(ret.val)
              /\ Sum(ret.val) = obj.simplex_size

\* A simplex projection that clipped a negative entry and shrank the working
\* set before it returned
C1_Witness ==
    /\ Projected
    /\ obj.cls = "SimplexProjection"
    /\ PositiveParam(obj)
    /\ prev = <<>>
    /\ iters >= 2
    /\ \E i \in 1..Len(x) : RLt(x[i], Zero)
    /\ ret.val # x

DistSq(a, b) == SumSq(VSub(a, b))

\* Points to compare project(x) with: half-integer grid points of x's length
Candidates(n) == [1..n -> {R(k, 2) : k \in (0 - 2 * MaxVal)..(2 * MaxVal)}]

\* C2: for every projection variant and every input x, y = project(x) is a
\* nearest feasible point: ||x - y|| <= ||x - y'|| for every feasible y'.
C2_NearestPoint ==
    (Projected /\ PositiveParam(obj)) =>
        /\ IsValue(ret)
        /\ \A yp \in Candidates(Len(x)) :
              ((obj.cls = "L2Projection" => HasNorm2(yp))
                  /\ IsFeasible(obj, yp))
              => RLe(DistSq(x, ret.val), DistSq(x, yp))

\* C3: projection is idempotent for every variant: project(project(x)) =
\* project(x); SimplexProjection returns a point of the simplex with rho = 0.
C3_Idempotent ==
    (Projected /\ PositiveParam(obj) /\ prev # <<>>) =>
        /\ IsValue(ret)
        /\ x = prev
        /\ ret.val = prev
        /\ obj.cls = "SimplexProjection" => rho = Zero

\* A point of the simplex with a zero entry, projected a second time, whose
\* zero entry the loop dropped from the working set before it returned
C3_Witness ==
    /\ Projected
    /\ prev # <<>>
    /\ obj.cls = "SimplexProjection"
    /\ PositiveParam(obj)
    /\ \E i \in 1..Len(prev) : prev[i] = Zero
    /\ iters >= 2
    /\ IsValue(ret)

\* C4: L1Projection(a).project(x) returns x unchanged when ||x||_1 <= a;
\* otherwise sign(x) * SimplexProject(|x|, a), whose L1 norm is exactly a and
\* whose entries are 0 or have the sign of x's.
C4_L1Projection ==
    (Projected /\ obj.cls = "L1Projection" /\ PositiveParam(obj)) =>
        /\ IsValue(ret)
        /\ IF RLe(Norm1(x), obj.max_norm)
           THEN ret.val = x
           ELSE /\ ret.val = VMul(VSign(x),
                                  SimplexProject(VAbs(x), obj.max_norm).val)
                /\ Norm1(ret.val) = obj.max_norm
                /\ \A i \in 1..Len(x) :
                      ret.val[i] = Zero \/ RSign(ret.val[i]) = RSign(x[i])

\* A point outside the ball with a negative entry that is kept negative and
\* a nonzero entry that is set to 0
C4_Witness ==
    /\ Projected
    /\ obj.cls = "L1Projection"
    /\ PositiveParam(obj)
    /\ RLt(obj.max_norm, Norm1(x))
    /\ \E i \in 1..Len(x) : RLt(x[i], Zero) /\ RLt(ret.val[i], Zero)
    /\ \E i \in 1..Len(x) : x[i] # Zero /\ ret.val[i] = Zero

\* The objects whose project runs the support-reduction loop
RunsLoop(self) == self.cls \in {"SimplexProjection", "L1Projection"}

\* C9: for an n-element x and simplex_size > 0 the loop of
\* SimplexProjection.project ends within n iterations: the working set v is
\* never empty, it shrinks in every iteration that does not return, and the
\* loop returns in the first iteration that leaves its size unchanged.
C9_LoopTerminates ==
    (RunsLoop(obj) /\ PositiveParam(obj)) =>
        /\ pc = "simplex_loop" =>
              /\ Len(v) >= 1
              /\ Len(v) <= Len(y)
              /\ iters < Len(y)
              /\ iters >= 1 => Len(v) < Len(v_old)
        /\ (Projected /\ iters >= 1) =>
              /\ IsValue(ret)
              /\ iters <= Len(y)
              /\ Len(v) >= 1
              /\ Len(v) = Len(v_old)

\* A projection of a vector of three or more entries that took as many
\* iterations as x has entries
C9_Witness ==
    /\ Projected
    /\ obj.cls = "SimplexProjection"
    /\ PositiveParam(obj)
    /\ prev = <<>>
    /\ Len(x) >= 3
    /\ iters = Len(x)

---------------------------------------------------------------------------
(* Properties of construction. *)

\* A regularisation coefficient is positive: the number, or every weight
PositiveReg(reg) ==
    IF IsNumber(reg) THEN RLt(Zero, reg.val)
    ELSE \A i \in 1..Len(reg.data) : RLt(Zero, reg.data[i])

\* The radius / size / coefficient the constructor was called with is positive
PositiveArg(c) ==
    CASE c.cls = "NonNegativityProjection" -> TRUE
      [] c.cls = "SimplexProjection" -> RLt(Zero, c.simplex_size)
      [] c.cls \in BallClasses -> RLt(Zero, c.max_norm)
      [] c.cls \in Regularisers -> PositiveReg(c.reg)

\* C8 as stated: constructing a projection or regulariser with a non-positive
\* radius / size / coefficient fails with InvalidParameter at construction,
\* so that no object holds a non-positive parameter.
C8_InvalidParameter ==
    (pc # "init" /\ ~PositiveArg(ctor)) =>
        /\ obj = NoObj
        /\ ret = Raise("InvalidParameter")

\* C8 amended: construction never fails and never validates; the object holds
\* the radius / size / coefficient exactly as given, positive or not.
C8_NoValidation ==
    pc # "init" =>
        /\ obj.cls = ctor.cls
        /\ obj.cls = "SimplexProjection" =>
              obj.simplex_size = ctor.simplex_size
        /\ obj.cls \in BallClasses => obj.max_norm = ctor.max_norm
        /\ obj.cls = "L1Projection" =>
              obj.simplex_projection.simplex_size = ctor.max_norm
        /\ obj.cls \in Regularisers => obj.reg = ctor.reg
        /\ pc = "constructed" /\ prev = <<>> => ret = NoRet

\* A call that ran to its end on an object holding a non-positive parameter
C8_Witness ==
    /\ pc = "returned"
    /\ ~PositiveArg(ctor)
    /\ obj.cls = ctor.cls
    /\ method \in {"project", "prox", "__call__"}
    /\ ret # NoRet

---------------------------------------------------------------------------
(* Properties of the regularisers. *)

\* sign(x_i) * max(|x_i| - r_i, 0)
SoftThreshold(xx, reg) ==
    [i \in 1..Len(xx) |->
        RMul(RSign(xx[i]), RMax(RSub(RAbs(xx[i]), RegAt(reg, i)), Zero))]

\* C5: L1Regularisation(r).prox(x) returns the elementwise soft-threshold of
\* x: prox(x)_i = sign(x_i) * max(|x_i| - r_i, 0).
C5_SoftThreshold ==
    (pc = "returned" /\ method = "prox" /\ obj.cls = "L1Regularisation") =>
        /\ IsValue(ret)
        /\ ret.val = SoftThreshold(x, obj.reg)

\* The groups of the grouping the constructor was given, as sets of (1-based)
\* indices of an n-vector: singletons for None, else one per label
GroupsOf(groups, n) ==
    IF IsNone(groups) THEN {{i} : i \in 1..n}
    ELSE {{i \in 1..n : groups.data[i] = l} : l \in Labels} \ {{}}

\* The square of the effective coefficient r_g of group g: (r*sqrt(|g|))^2 for
\* a number r, else the square of the weight of g's label
RegSq(reg, groups, g) ==
    IF IsNumber(reg) THEN RMul(RMul(reg.val, reg.val), R(Cardinality(g), 1))
    ELSE LET i == CHOOSE j \in g : TRUE
             w == IF IsNone(groups) THEN reg.data[i]
                  ELSE reg.data[groups.data[i].val + 1]
         IN  RMul(w, w)

\* yy is the block soft-threshold of xx on group g: zero if ||x_g|| <= r_g,
\* else (1 - r_g/||x_g||) * x_g, stated on squares
BlockSoftThreshold(xx, yy, g, rsq) ==
    LET nsq == Sum([k \in 1..Len(xx) |->
                      IF k \in g THEN RMul(xx[k], xx[k]) ELSE Zero])
    IN  IF RLe(nsq, rsq)
        THEN \A i \in g : yy[i] = Zero
        ELSE \A i \in g :
                /\ RSign(RSub(xx[i], yy[i])) = RSign(xx[i])
                /\ RSign(yy[i]) = RSign(xx[i])
                /\ RMul(RMul(RSub(xx[i], yy[i]), RSub(xx[i], yy[i])), nsq)
                      = RMul(rsq, RMul(xx[i], xx[i]))

\* C6: GroupLassoRegularisation.prox(x) returns a vector of the shape of x
\* that on every group g is zero if ||x_g||_2 <= r_g and
\* (1 - r_g/||x_g||_2) * x_g otherwise (r_g = r*sqrt(|g|) for a scalar r).
C6_GroupProx ==
    (/\ pc = "returned" /\ method = "prox"
     /\ obj.cls = "GroupLassoRegularisation" /\ PositiveArg(ctor)) =>
        /\ IsValue(ret)
        /\ Len(ret.val) = Len(x)
        /\ \A g \in GroupsOf(ctor.groups, Len(x)) :
              BlockSoftThreshold(x, ret.val, g,
                                 RegSq(ctor.reg, ctor.groups, g))

\* C7: for every regulariser and every x, subgradient(prox(x)) + prox(x) = x.
C7_ProxFixedPoint ==
    (pc = "returned" /\ method = "prox" /\ PositiveArg(ctor)) =>
        /\ IsValue(ret)
        /\ IsValue(Subgradient(obj, ret.val))
        /\ VAdd(Subgradient(obj, ret.val).val, ret.val) = x

\* The (1-based) indices of an n-vector that idxes of a GroupMetaInfo selects
IdxSet(idxes, n) ==
    CASE idxes.py = "int" -> {idxes.val + 1}
      [] idxes.py = "bool_" -> IF idxes.val THEN 1..n ELSE {}
      [] idxes.py = "ndarray" -> {i \in 1..n : idxes.data[i]}

\* C10: for every grouping, the default groups=None (singleton groups)
\* included, a full run of iter_groups(x) yields every group exactly once and
\* the yielded index sets cover every index of x exactly once.
C10_GroupsOnce ==
    (pc = "returned" /\ method = "iter_groups") =>
        /\ IsValue(ret)
        /\ \A i \in 1..Len(x) :
              Cardinality({k \in 1..Len(ret.val) :
                              i \in IdxSet(ret.val[k].idxes, Len(x))}) = 1
        /\ \A g \in GroupsOf(ctor.groups, Len(x)) :
              Cardinality({k \in 1..Len(ret.val) :
                              IdxSet(ret.val[k].idxes, Len(x)) = g}) = 1
        /\ Len(ret.val) = Cardinality(GroupsOf(ctor.groups, Len(x)))

---------------------------------------------------------------------------
(* Specifications. *)
NextProjection ==
    \/ ConstructNonNeg
    \/ ConstructSimplex
    \/ ConstructBall
    \/ ProjectNonNeg
    \/ ProjectSimplex
    \/ ProjectL1
    \/ SimplexLoop
    \/ ProjectL2
    \/ ProjectLInf
    \/ ProjectAgain

NextRegulariser ==
    \/ ConstructL1Reg
    \/ ConstructGroupLasso
    \/ CallPenalty
    \/ CallSubgradient
    \/ CallProx
    \/ IterGroupsStart
    \/ IterGroupsNext

Next == NextProjection \/ NextRegulariser

\* the projections alone
Spec == Init /\ [][NextProjection]_vars
\* the regularisers alone
SpecReg == Init /\ [][NextRegulariser]_vars
\* the whole library
SpecAll == Init /\ [][Next]_vars

====
